---- MODULE Spec2Model ----
(***************************************************************************)
(* A model of simulator/src/main.rs: the signal generator Measure (new,    *)
(* simulate, mean_difference), the inversion clean_mae_calc of the         *)
(* expected mean-absolute-difference curve, and the demonstration run of   *)
(* main.                                                                   *)
(***************************************************************************)
EXTENDS Integers, Sequences, FiniteSets, TLC

(***************************************************************************)
(* f64 arithmetic.  An f64 is modelled as a binary floating-point number   *)
(* with a MantBits-bit significand and the f64 exponent range: NaN,        *)
(* +-infinity, zero, or m * 2^e with 2^(MantBits-1) <= |m| < 2^MantBits.   *)
(* Every operation rounds its exact result to nearest, ties to even, as    *)
(* IEEE 754 does; only the width of the significand is reduced, so that    *)
(* the product of two significands stays within the checker's integers.    *)
(* The sign of a zero is not modelled.                                     *)
(***************************************************************************)
MantBits == 30
MantLo == 2^(MantBits - 1)
MantHi == 2^MantBits
Half == 2^(MantBits \div 2)
MaxExp == 1024 - MantBits
MinExp == 0 - 1074

\* The element of a singleton.  An operation written Only({e(p) : p \in {a}})
\* evaluates its operand a once and works on the value.
Only(S) == CHOOSE r \in S : TRUE

NaN == [c |-> "nan", m |-> 0, e |-> 0]
Inf(s) == [c |-> "inf", m |-> s, e |-> 0]
Zero == [c |-> "fin", m |-> 0, e |-> 0]
F(m, e) == [c |-> "fin", m |-> m, e |-> e]
Sgn(n) == IF n < 0 THEN -1 ELSE IF n > 0 THEN 1 ELSE 0
Abs(n) == IF n < 0 THEN -n ELSE n
IsNaN(a) == a.c = "nan"
IsInf(a) == a.c = "inf"
IsFin(a) == a.c = "fin"
\* finite and not zero
IsNum(a) == Only({p.c = "fin" /\ p.m # 0 : p \in {a}})

\* Finite(s, m, e): s * m * 2^e for a normalised m; an exponent out of the f64
\* range overflows to infinity or underflows to zero.
Finite(s, m, e) ==
    Only({IF x > MaxExp THEN Inf(s)
          ELSE IF x < MinExp THEN Zero
          ELSE [c |-> "fin", m |-> s * m, e |-> x] : x \in {e}})

\* Normalising 0 < m < 2^(MantBits-1): <<m * 2^k, k>> with the shifted m normalised,
\* the shift found by halving.
ShiftBy(p, j) ==
    Only({IF q[1] < 2^(MantBits - j) THEN <<q[1] * 2^j, q[2] + j>> ELSE q : q \in {p}})
LeadShift(m) == ShiftBy(ShiftBy(ShiftBy(ShiftBy(ShiftBy(<<m, 0>>, 16), 8), 4), 2), 1)
Shifted(s, p, e) == Only({Finite(s, q[1], e - q[2]) : q \in {p}})

\* Scaled(m, num, den, e): <<n, up, x>> with m + num/den = (n + f) * 2^(x - e),
\* n normalised, 0 <= f < 1, and up = 1 iff rounding n + f to nearest, ties to
\* even, rounds up; for 2^(MantBits-2) <= m < 2^31 and 0 <= num < den.
Nearest(n, num, den, e) ==
    <<n, IF 2 * num > den \/ (2 * num = den /\ (n % 2) = 1) THEN 1 ELSE 0, e>>
Scaled(m, num, den, e) ==
    IF m >= MantHi THEN
        <<m \div 2, IF (m % 2) = 1 /\ (num > 0 \/ ((m \div 2) % 2) = 1) THEN 1 ELSE 0, e + 1>>
    ELSE IF m >= MantLo THEN Nearest(m, num, den, e)
    ELSE Nearest(2 * m + (IF 2 * num >= den THEN 1 ELSE 0), (2 * num) % den, den, e - 1)
\* n + up, renormalised when the carry makes it 2^MantBits
RoundUp(s, t) ==
    Only({Finite(s, IF u[1] + u[2] = MantHi THEN MantLo ELSE u[1] + u[2],
                 IF u[1] + u[2] = MantHi THEN u[3] + 1 ELSE u[3]) : u \in {t}})

\* Round(s, m, num, den, e): the f64 nearest to s * (m + num/den) * 2^e, ties to
\* even, for 0 <= m < 2^31 and 0 <= num < den <= 2^MantBits, where
\* m >= 2^(MantBits-2) unless num = 0.
Round(s, m, num, den, e) ==
    Only({IF r = 0 /\ n = 0 THEN Zero
          ELSE IF r = 0 /\ n < MantLo THEN Shifted(s, LeadShift(n), e)
          ELSE RoundUp(s, Scaled(n, r, den, e)) : n \in {m}, r \in {num}})
\* Round of the tuple <<s, m, num, den, e>>
RoundT(t) == Only({Round(u[1], u[2], u[3], u[4], u[5]) : u \in {t}})

FNeg(a) == [a EXCEPT !.m = -@]
FAbs(a) == [a EXCEPT !.m = Abs(@)]

\* The product of two significands, from its partial products in base Half.
MulLow(s, hi, low, e) ==
    Only({Round(s, hi + l \div MantHi, l % MantHi, MantHi, e) : l \in {low}})
MulMid(s, hh, mid, ll, e) ==
    Only({MulLow(s, hh + d \div Half, (d % Half) * Half + ll, e) : d \in {mid}})
MulParts(s, x1, x0, y1, y0, e) == MulMid(s, x1 * y1, x1 * y0 + x0 * y1, x0 * y0, e)
MulNum(s, x, y, e) == MulParts(s, x \div Half, x % Half, y \div Half, y % Half, e)

\* a * b
FMul(a, b) ==
    Only({IF IsNum(p) /\ IsNum(q) THEN
              MulNum(Sgn(p.m) * Sgn(q.m), Abs(p.m), Abs(q.m), p.e + q.e + MantBits)
          ELSE IF IsNaN(p) \/ IsNaN(q) THEN NaN
          ELSE IF IsInf(p) \/ IsInf(q) THEN
              (IF p.m = 0 \/ q.m = 0 THEN NaN ELSE Inf(Sgn(p.m) * Sgn(q.m)))
          ELSE Zero : p \in {a}, q \in {b}})

\* One digit, in base 2^10, of the long division by y: <<digit, remainder>> for
\* the running remainder r * 2^10, 0 <= r < y; the digit estimated from the
\* leading bits is off by one at most.
DivFix(d, rem, y) ==
    Only({IF r < 0 THEN <<d - 1, r + y>>
          ELSE IF r >= y THEN <<d + 1, r - y>>
          ELSE <<d, r>> : r \in {rem}})
DivRem(t, u) == Only({(t * 2^10 + v \div 2^10) * 2^10 + (v % 2^10) : v \in {u}})
DivTry(r, y, d) ==
    Only({DivFix(k, DivRem(r \div 2^10 - k * (y \div 2^20),
                           (r % 2^10) * 2^10 - k * (y % 2^20)), y) : k \in {d}})
DivDigit(r, y) == DivTry(r, y, (r \div 2^5) \div (y \div 2^15))

\* The quotient x / y of two significands: a leading bit and three digits.
DivEnd(s, q, d3, y, e) == Round(s, q * 2^10 + d3[1], d3[2], y, e)
Div3(s, q, d2, y, e) ==
    Only({DivEnd(s, q * 2^10 + d2[1], d, y, e) : d \in {DivDigit(d2[2], y)}})
Div2(s, q0, d1, y, e) ==
    Only({Div3(s, q0 * 2^10 + d1[1], d, y, e) : d \in {DivDigit(d1[2], y)}})
Div1(s, x, y, e, q0) ==
    Only({Div2(s, q0, d, y, e) : d \in {DivDigit(x - q0 * y, y)}})
DivNum(s, x, y, e) == Div1(s, x, y, e, IF x >= y THEN 1 ELSE 0)

\* a / b
FDiv(a, b) ==
    Only({IF IsNum(p) /\ IsNum(q) THEN
              DivNum(Sgn(p.m) * Sgn(q.m), Abs(p.m), Abs(q.m), p.e - q.e - MantBits)
          ELSE IF IsNaN(p) \/ IsNaN(q) THEN NaN
          ELSE IF IsInf(p) THEN
              (IF IsInf(q) THEN NaN ELSE Inf(Sgn(p.m) * (IF q.m < 0 THEN -1 ELSE 1)))
          ELSE IF IsInf(q) THEN Zero
          ELSE IF q.m = 0 THEN (IF p.m = 0 THEN NaN ELSE Inf(Sgn(p.m)))
          ELSE Zero : p \in {a}, q \in {b}})

\* big + sml for big.e - sml.e = d >= 0, as the <<s, m, num, den, e>> to round;
\* x and y are their significands.
AddParts(big, sml, d, x, y) ==
    IF d = 0 THEN <<Sgn(big.m + sml.m), Abs(big.m + sml.m), 0, 1, big.e>>
    ELSE IF (big.m > 0) = (sml.m > 0) THEN
        <<Sgn(big.m), x + y \div 2^d, y % 2^d, 2^d, big.e>>
    ELSE IF (y % 2^(d - 1)) = 0 THEN
        <<Sgn(big.m), 2 * x - y \div 2^(d - 1), 0, 1, big.e - 1>>
    ELSE <<Sgn(big.m), 2 * x - y \div 2^(d - 1) - 1, 2^(d - 1) - (y % 2^(d - 1)),
           2^(d - 1), big.e - 1>>
AddOrdered(big, sml, d) ==
    IF d > MantBits + 1 \/ (d > MantBits /\ (big.m > 0) = (sml.m > 0)) THEN big
    ELSE RoundT(AddParts(big, sml, d, Abs(big.m), Abs(sml.m)))
AddNum(t) == Only({AddOrdered(u[1], u[2], u[1].e - u[2].e) : u \in {t}})

\* a + b
FAdd(a, b) ==
    Only({IF IsNum(p) /\ IsNum(q) THEN AddNum(IF p.e >= q.e THEN <<p, q>> ELSE <<q, p>>)
          ELSE IF IsNaN(p) \/ IsNaN(q) THEN NaN
          ELSE IF IsInf(p) THEN (IF IsInf(q) /\ q.m # p.m THEN NaN ELSE p)
          ELSE IF IsInf(q) THEN q
          ELSE IF p.m = 0 THEN q
          ELSE p : p \in {a}, q \in {b}})

\* a - b
FSub(a, b) == FAdd(a, FNeg(b))

\* a < b; false when either is NaN
FLt(a, b) ==
    Only({IF IsFin(p) /\ IsFin(q) THEN
              IF p.m = 0 \/ q.m = 0 \/ (p.m > 0) # (q.m > 0) THEN p.m < q.m
              ELSE IF p.e = q.e THEN p.m < q.m
              ELSE (p.e < q.e) = (p.m > 0)
          ELSE IF IsNaN(p) \/ IsNaN(q) THEN FALSE
          ELSE IF IsInf(p) THEN p.m < 0 /\ ~(IsInf(q) /\ q.m < 0)
          ELSE q.m > 0 : p \in {a}, q \in {b}})
\* a <= b
FLe(a, b) == Only({FLt(p, q) \/ (~IsNaN(p) /\ p = q) : p \in {a}, q \in {b}})

\* The f64 of an integer.
FInt(n) == Only({Round(Sgn(k), Abs(k), 0, 1, 0) : k \in {n}})

One == F(536870912, -29)
\* std::f64::consts::PI, SQRT_2 and LN_2, rounded to the significand
PI == F(843314857, -28)
SQRT_2 == F(759250125, -29)
LN_2 == F(744261118, -30)
\* f64::powi(a, 2)
powi2(a) == Only({FMul(p, p) : p \in {a}})

\* The integer nearest to a finite f64 of magnitude below 2^30.
FToInt(a) ==
    Only({IF p.m = 0 \/ -p.e > MantBits THEN 0
          ELSE IF p.e >= 0 THEN p.m * 2^p.e
          ELSE Sgn(p.m) * ((Abs(p.m) + 2^(-p.e - 1)) \div 2^(-p.e)) : p \in {a}})

\* One Newton step towards sqrt(a) from y.
SqrtStep(a, y) == Only({FMul(F(MantLo, -MantBits), FAdd(q, FDiv(a, q))) : q \in {y}})
\* sqrt(m * 2^e) for an even e and 2^28 <= m < 2^30, from a linear first guess.
SqrtEven(a, t) ==
    SqrtStep(a, SqrtStep(a, SqrtStep(a, SqrtStep(a,
        Round(1, 2^14 + (t[1] - 2^28) \div (3 * 2^14), 0, 1, t[2] \div 2)))))

\* f64::sqrt
FSqrt(a) ==
    Only({IF IsNaN(p) \/ p.m < 0 THEN NaN
          ELSE IF IsInf(p) \/ p.m = 0 THEN p
          ELSE SqrtEven(p, IF (p.e % 2) = 1 THEN <<p.m \div 2, p.e + 1>>
                           ELSE <<p.m, p.e>>) : p \in {a}})

\* 1/n! for n = 0..11
InvFact == <<F(536870912, -29), F(536870912, -29), F(536870912, -30), F(715827883, -32),
             F(715827883, -34), F(572662306, -36), F(763549742, -39), F(872628276, -42),
             F(872628276, -45), F(775669579, -48), F(620535663, -51), F(902597328, -55)>>

\* c[i] + c[i+1] * r
Lin(c, i, r) == FAdd(c[i], FMul(c[i + 1], r))
\* The Taylor polynomial of exp of degree 11 at r, summed pairwise; r2 and r4
\* are r^2 and r^4.
ExpPoly(r, r2, r4) ==
    FAdd(FAdd(FAdd(Lin(InvFact, 1, r), FMul(r2, Lin(InvFact, 3, r))),
              FMul(r4, FAdd(Lin(InvFact, 5, r), FMul(r2, Lin(InvFact, 7, r))))),
         FMul(FMul(r4, r4), FAdd(Lin(InvFact, 9, r), FMul(r2, Lin(InvFact, 11, r)))))
ExpScale(p, k) == Only({Finite(1, q.m, q.e + k) : q \in {p}})
ExpFourth(r, r2, k) == Only({ExpScale(ExpPoly(r, r2, r4), k) : r4 \in {FMul(r2, r2)}})
ExpSquare(r, k) == Only({ExpFourth(r, r2, k) : r2 \in {FMul(r, r)}})
ExpReduced(a, k) == Only({ExpSquare(r, k) : r \in {FSub(a, FMul(FInt(k), LN_2))}})
ExpSplit(a) == Only({ExpReduced(a, k) : k \in {FToInt(FDiv(a, LN_2))}})

\* f64::exp: exp(a) = 2^k * exp(r) with a = k * ln 2 + r and |r| <= ln 2 / 2.
FExp(a) ==
    Only({IF IsNaN(p) THEN NaN
          ELSE IF IsInf(p) THEN (IF p.m > 0 THEN p ELSE Zero)
          ELSE IF p.m = 0 THEN One
          ELSE IF p.e > 10 - MantBits THEN (IF p.m > 0 THEN Inf(1) ELSE Zero)
          ELSE ExpSplit(p) : p \in {a}})

ErfP == F(703496530, -31)
ErfA == <<F(547242382, -31), F(-610952088, -31), F(763115691, -29), F(-780155054, -29),
          F(569837701, -29)>>

ErfPoly(t, t2) ==
    FMul(t, FAdd(FAdd(Lin(ErfA, 1, t), FMul(t2, Lin(ErfA, 3, t))),
                 FMul(FMul(t2, t2), ErfA[5])))
ErfSquare(t) == Only({ErfPoly(t, t2) : t2 \in {FMul(t, t)}})
ErfPos(x) ==
    Only({FSub(One, FMul(ErfSquare(t), FExp(FNeg(FMul(x, x)))))
              : t \in {FDiv(One, FAdd(One, FMul(ErfP, x)))}})

ErfOdd(s, v) == IF s < 0 THEN FNeg(v) ELSE v
\* statrs::function::erf::erf, by the rational approximation
\* 1 - (a1 t + ... + a5 t^5) exp(-x^2), t = 1 / (1 + p x), of absolute error
\* below 1.5e-7.
erf(a) ==
    Only({IF IsNaN(p) THEN NaN
          ELSE IF IsInf(p) THEN FInt(p.m)
          ELSE IF p.m = 0 THEN Zero
          ELSE ErfOdd(p.m, ErfPos(FAbs(p))) : p \in {a}})

\* The f64 of the decimal literal n / d.
Dec(n, d) == FDiv(FInt(n), FInt(d))

(***************************************************************************)
(* The random generator.  rand::thread_rng() is modelled by a generator    *)
(* whose state rng every draw steps; its seed is arbitrary.  A draw from   *)
(* Uniform::new_inclusive(low, high) is low, the midpoint or high, and a   *)
(* draw from Normal::new(mean, std) is mean - std, mean or mean + std.     *)
(***************************************************************************)
RngMod == 4
RngNext(r) == (r + 3) % RngMod
RECURSIVE RngAt(_, _)
\* the state of the generator after i draws from state r
RngAt(r, i) == IF i = 0 THEN r ELSE RngNext(RngAt(r, i - 1))
UniformSample(low, high, r) == FAdd(low, FMul(FSub(high, low), Dec(r % 3, 2)))
NormalSample(mean, std, r) == FAdd(mean, FMul(std, FInt((r % 3) - 1)))

\* Uniform::new_inclusive(low, high) panics unless low <= high.
UniformPanics(low, high) == ~FLe(low, high)
\* Normal::new(mean, std) is an Err, on which simulate's unwrap panics, for a NaN
\* or infinite std; for a negative std it is an Err in the releases of rand_distr
\* that require std >= 0 and Ok (the distribution mirrored) in those that only
\* require a finite std.  accepts tells which release the build links.
NormalErr(mean, std, accepts) ==
    IsNaN(std) \/ IsInf(std) \/ (std.m < 0 /\ ~accepts)

(***************************************************************************)
(* impl Measure                                                            *)
(***************************************************************************)
\* Measure::new(size, low, high) with the generator in state r
new(size, low, high, r) ==
    [i \in 1..size |-> UniformSample(low, high, RngAt(r, i - 1))]
new_panics(size, low, high) == UniformPanics(low, high)

\* simulate with the last sample lost: what an off-by-one in the collection of
\* the samples would return
simulate_short(measure, std, r) ==
    [i \in 1..(Len(measure) - 1) |-> NormalSample(measure[i], std, RngAt(r, i - 1))]

\* Measure::simulate(measure, std) with the generator in state r
simulate(measure, std, r) ==
    [i \in 1..Len(measure) |-> NormalSample(measure[i], std, RngAt(r, i - 1))]
simulate_panics(measure, std, accepts) ==
    \E i \in 1..Len(measure) : NormalErr(measure[i], std, accepts)

Min(i, j) == IF i <= j THEN i ELSE j
RECURSIVE SumTo(_, _)
\* Iterator::sum of the first n elements of v
SumTo(v, n) == IF n = 0 THEN Zero ELSE FAdd(SumTo(v, n - 1), v[n])
\* model.iter().zip(test).map(|(a, b)| (a - b).abs())
AbsDiffs(model, test) ==
    [i \in 1..Min(Len(model), Len(test)) |-> FAbs(FSub(model[i], test[i]))]
\* Measure::mean_difference(model, test)
mean_difference(model, test) ==
    FDiv(SumTo(AbsDiffs(model, test), Min(Len(model), Len(test))), FInt(Len(model)))

(***************************************************************************)
(* clean_mae_calc                                                          *)
(***************************************************************************)
GridSize == 10000
SqrtPi == FSqrt(PI)

\* itertools_num::linspace(a, b, n): element i (from 0) is a + step * i.
LinStep(a, b, n) == IF n > 1 THEN FDiv(FSub(b, a), FSub(FInt(n), One)) ELSE Zero
LinFill(a, step, n) == <<>> \o [i \in 1..n |-> FAdd(a, FMul(step, FInt(i - 1)))]
linspace(a, b, n) == Only({LinFill(a, step, n) : step \in {LinStep(a, b, n)}})

\* The closure of clean_mae_calc: the expected mean absolute difference at a
\* distance m under noise sigma.
Formula(m, sigma) ==
    Only({FAdd(FMul(p, erf(FDiv(FDiv(p, SQRT_2), q))),
               FDiv(FMul(FMul(SQRT_2, q),
                         FExp(FMul(FNeg(F(MantLo, -MantBits)), powi2(FDiv(p, q))))),
                    SqrtPi)) : p \in {m}, q \in {sigma}})

\* let sigma = (sigma_x.powi(2) + sigma_y.powi(2)).sqrt()
Combined(sigma_x, sigma_y) == FSqrt(FAdd(powi2(sigma_x), powi2(sigma_y)))

\* interp::interp(x, y, xp): the line through the points i and i + 1 (from 0) of
\* the table at xp, i the index of the last of the leading elements of x that are
\* below xp (0 if none is), at most min_len - 2.
Leading(x, xp) ==
    CHOOSE j \in 0..Len(x) :
        /\ (j = Len(x) \/ ~FLt(x[j + 1], xp))
        /\ \A k \in 1..j : FLt(x[k], xp)
prev_index(x, xp) == Only({IF j = 0 THEN 0 ELSE j - 1 : j \in {Leading(x, xp)}})
\* m[i] = dy[i] / dx[i] and c[i] = y[i] - m[i] * x[i], i from 0
Slope(x, y, i) == FDiv(FSub(y[i + 2], y[i + 1]), FSub(x[i + 2], x[i + 1]))
Intercept(x, y, i, m) == FSub(y[i + 1], FMul(m, x[i + 1]))
InterpLine(x, y, xp, i, m) == FAdd(FMul(m, xp), Intercept(x, y, i, m))
InterpAt(x, y, xp, i) ==
    Only({InterpLine(x, y, xp, j, m) : j \in {i}, m \in {Slope(x, y, i)}})
interp(x, y, xp) ==
    Only({IF Min(Len(p), Len(q)) = 0 THEN Zero
          ELSE IF Min(Len(p), Len(q)) = 1 THEN q[1]
          ELSE InterpAt(p, q, xp, Min(prev_index(p, xp), Min(Len(p), Len(q)) - 2))
              : p \in {x}, q \in {y}})

\* linspace::<f64>(0f64, 5f64 * sigma, 10_000)
h_range(sigma) == linspace(Zero, FMul(FInt(5), sigma), GridSize)
\* h_range.iter().map(|&m| ...) over the grid h
phi_range(h, sigma) == <<>> \o [i \in 1..GridSize |-> Formula(h[i], sigma)]

\* The noise levels the model calls clean_mae_calc with: those of main, the same
\* exchanged, and none at all.
SigmaPairs ==
    {<<Dec(18, 100), Dec(20, 100)>>, <<Dec(20, 100), Dec(18, 100)>>, <<Zero, Zero>>}
Sigmas == {Combined(p[1], p[2]) : p \in SigmaPairs}
\* clean_mae_calc builds both tables anew on every call; they depend on sigma
\* alone, and are tabulated here once for each sigma of the model.
h_table == [s \in Sigmas |-> h_range(s)]
phi_table == [s \in Sigmas |-> phi_range(h_table[s], s)]

InterpTables(phi, sigma) == Only({interp(phi_table[s], h_table[s], phi) : s \in {sigma}})
clean_mae_calc(phi, sigma_x, sigma_y) == InterpTables(phi, Combined(sigma_x, sigma_y))

\* statrs' Statistics::population_std_dev of a Vec<f64>: the running sum and the
\* running sum of squared deviations after the first k elements, then
\* (variance / k).sqrt(); NaN for no element.
VarNext(acc, sum, x, k) ==
    Only({[sum |-> t,
           variance |-> FAdd(acc.variance,
                             FDiv(powi2(FSub(FMul(FInt(k), x), t)),
                                  FMul(FInt(k), FSub(FInt(k), One))))] : t \in {sum}})
VarStep(acc, x, k) == Only({VarNext(p, FAdd(p.sum, x), x, k) : p \in {acc}})
RECURSIVE VarAcc(_, _)
VarAcc(v, k) ==
    IF k = 1 THEN [sum |-> v[1], variance |-> Zero]
    ELSE VarStep(VarAcc(v, k - 1), v[k], k)
population_std_dev(v) ==
    IF Len(v) = 0 THEN NaN
    ELSE FSqrt(FDiv(VarAcc(v, Len(v)).variance, FInt(Len(v))))

\* The decomposition by quadrature subtraction, which main does not perform:
\* clean_mae^2 less the squares of the two known noise levels, and 1.2535 times
\* its square root with the noise levels of main.
Radicand(clean_mae, sigma_x, sigma_y) ==
    FSub(FSub(powi2(clean_mae), powi2(sigma_x)), powi2(sigma_y))
QuadratureStd(clean_mae) ==
    FMul(Dec(12535, 10000), FSqrt(Radicand(clean_mae, Dec(18, 100), Dec(20, 100))))

\* let model_std = 1.2535 * clean_mae
model_std_calc(clean_mae) == FMul(Dec(12535, 10000), clean_mae)

(***************************************************************************)
(* The state.  pc is the statement of main about to run, or the stage of a *)
(* single call of one of the functions; locals holds the let bindings (of  *)
(* a call: its arguments and, once returned, its value ret); out is the    *)
(* standard output; rng is the state of the thread's random generator;     *)
(* negative_std_ok tells whether the linked rand_distr accepts a negative  *)
(* standard deviation.                                                     *)
(***************************************************************************)
VARIABLES pc, locals, out, rng, negative_std_ok
vars == <<pc, locals, out, rng, negative_std_ok>>

\* the bindings l with name bound to v
Bind(l, name, v) == [k \in DOMAIN l \cup {name} |-> IF k = name THEN v ELSE l[k]]
Bound(name) == name \in DOMAIN locals

\* The sample size of main (1_000 in the source) and the longest signal handed to
\* a single call.
sampling_size == 3
MaxLen == 2

Samples == {FInt(8), FInt(12)}
Signals == UNION {[1..n -> Samples] : n \in 0..MaxLen}
Deviations == {Zero, Dec(20, 100), FNeg(Dec(20, 100))}
\* Grid points (from 1) put to clean_mae_calc: both ends, the second and the middle.
GridPoints == {1, 2, GridSize \div 2, GridSize}
\* Observed values put to clean_mae_calc for the noise levels p: points of its own
\* curve, zero, one half, and a value above the end of the curve.
PhiPoints(curve) ==
    Only({{t[i] : i \in GridPoints} \cup {Zero, Dec(5, 10), FAdd(t[GridSize], One)}
              : t \in {curve}})
PhiInputs(p) == PhiPoints(phi_table[Combined(p[1], p[2])])

NewCalls == [fn : {"new"}, size : 0..MaxLen, low : Samples, high : Samples]
SimulateCalls == [fn : {"simulate"}, measure : Signals, std : Deviations]
MeanCalls == [fn : {"mean_difference"}, model : Signals, test : Signals]
CleanCalls ==
    UNION {[fn : {"clean_mae_calc"}, phi : PhiInputs(p), sigma_x : {p[1]}, sigma_y : {p[2]}]
               : p \in SigmaPairs}

\* main's bindings of lines 72-75
MainLocals ==
    [fn |-> "main", sigma |-> Dec(7, 100), sigma_x |-> Dec(18, 100),
     sigma_y |-> Dec(20, 100), sampling_size |-> sampling_size]

\* Either the program is run, or one of its functions is called once.
Init ==
    /\ rng \in 0..(RngMod - 1)
    /\ negative_std_ok \in BOOLEAN
    /\ out = <<>>
    /\ \/ pc = "L78" /\ locals = MainLocals
       \/ pc = "call" /\ locals \in NewCalls \cup SimulateCalls \cup MeanCalls \cup CleanCalls

(***************************************************************************)
(* Single calls.  A call returns (pc = "returned", its value bound to ret) *)
(* or panics (pc = "panicked").                                            *)
(***************************************************************************)
Calling(fn) == pc = "call" /\ locals.fn = fn
Return(v) == pc' = "returned" /\ locals' = Bind(locals, "ret", v)
Panic == pc' = "panicked" /\ UNCHANGED <<locals, rng>>

CallNew ==
    /\ Calling("new")
    /\ IF new_panics(locals.size, locals.low, locals.high) THEN Panic
       ELSE /\ Return(new(locals.size, locals.low, locals.high, rng))
            /\ rng' = RngAt(rng, locals.size)
    /\ UNCHANGED <<out, negative_std_ok>>

CallSimulate ==
    /\ Calling("simulate")
    /\ IF simulate_panics(locals.measure, locals.std, negative_std_ok) THEN Panic
       ELSE /\ Return(simulate(locals.measure, locals.std, rng))
            /\ rng' = RngAt(rng, Len(locals.measure))
    /\ UNCHANGED <<out, negative_std_ok>>

CallMeanDifference ==
    /\ Calling("mean_difference")
    /\ Return(mean_difference(locals.model, locals.test))
    /\ UNCHANGED <<out, rng, negative_std_ok>>

CallCleanMaeCalc ==
    /\ Calling("clean_mae_calc")
    /\ Return(clean_mae_calc(locals.phi, locals.sigma_x, locals.sigma_y))
    /\ UNCHANGED <<out, rng, negative_std_ok>>

(***************************************************************************)
(* main, statement by statement; a label is the line of the statement.     *)
(***************************************************************************)
LetNew(at, name, size, low, high, next) ==
    /\ pc = at
    /\ IF new_panics(size, low, high) THEN Panic
       ELSE /\ pc' = next
            /\ locals' = Bind(locals, name, new(size, low, high, rng))
            /\ rng' = RngAt(rng, size)
    /\ UNCHANGED <<out, negative_std_ok>>

LetSimulate(at, name, measure, std, next) ==
    /\ pc = at
    /\ IF simulate_panics(measure, std, negative_std_ok) THEN Panic
       ELSE /\ pc' = next
            /\ locals' = Bind(locals, name, simulate(measure, std, rng))
            /\ rng' = RngAt(rng, Len(measure))
    /\ UNCHANGED <<out, negative_std_ok>>

LetValue(at, name, v, next) ==
    /\ pc = at
    /\ pc' = next
    /\ locals' = Bind(locals, name, v)
    /\ UNCHANGED <<out, rng, negative_std_ok>>

Println(at, text, args, next) ==
    /\ pc = at
    /\ pc' = next
    /\ out' = Append(out, [text |-> text, args |-> args])
    /\ UNCHANGED <<locals, rng, negative_std_ok>>

Let_b == LetNew("L78", "b", locals.sampling_size, FInt(8), FInt(12), "L81")
Let_y == LetSimulate("L81", "y", locals.b, locals.sigma_y, "L85")
Let_a == LetSimulate("L85", "a", locals.b, locals.sigma, "L88")
Let_x == LetSimulate("L88", "x", locals.a, locals.sigma_x, "L91")
Let_mae == LetValue("L91", "mae", mean_difference(locals.a, locals.b), "L92")
Print_mae == Println("L92", "MAE (real): {}", <<locals.mae>>, "L95")
Let_wrong_mae ==
    LetValue("L95", "wrong_mae", mean_difference(locals.x, locals.y), "L96")
\* line 96 printing the value of line 92 once more in place of wrong_mae
Print_mae_again == Println("L96", "MAE (real): {}", <<locals.mae>>, "L105")
Print_wrong_mae ==
    Println("L96", "WrongMAE (usual way): {}", <<locals.wrong_mae>>, "L105")
Let_clean_mae ==
    LetValue("L105", "clean_mae",
             clean_mae_calc(locals.wrong_mae, locals.sigma_x, locals.sigma_y), "L106")
Print_clean_mae ==
    Println("L106", "CleanMAE (our method) = {}", <<locals.clean_mae>>, "L114")
Print_ratio ==
    Println("L114", "|WrongMAE - MAE| / |CleanMAE - MAE| = {}",
            <<FDiv(FAbs(FSub(locals.wrong_mae, locals.mae)),
                   FAbs(FSub(locals.clean_mae, locals.mae)))>>, "L120")
Let_model_std == LetValue("L120", "model_std", model_std_calc(locals.clean_mae), "L121")
Print_model_std == Println("L121", "Model STD: {}", <<locals.model_std>>, "L122")
\* the block of lines 76-122 ends: its bindings are dropped
EndBlock ==
    /\ pc = "L122"
    /\ pc' = "L124"
    /\ locals' = [k \in DOMAIN MainLocals |-> locals[k]]
    /\ UNCHANGED <<out, rng, negative_std_ok>>
Print_header ==
    Println("L124", "\nDelta Sigma (obs) VS. Delta Sigma (real)", <<>>, "L127")
Let_a0 == LetNew("L127", "a0", locals.sampling_size, FInt(8), FInt(12), "L128")
Let_a1 == LetNew("L128", "a1", locals.sampling_size, FInt(9), FInt(11), "L130")
Let_a0_std == LetValue("L130", "a0_std", population_std_dev(locals.a0), "L131")
Let_a1_std == LetValue("L131", "a1_std", population_std_dev(locals.a1), "L133")
Print_std_real ==
    Println("L133", "STD (real): {:?} -> {:?}, diff: {}",
            <<locals.a0_std, locals.a1_std, FSub(locals.a0_std, locals.a1_std)>>, "L135")
Let_x0 == LetSimulate("L135", "x0", locals.a0, Dec(2, 10), "L136")
Let_x1 == LetSimulate("L136", "x1", locals.a1, Dec(2, 10), "L138")
Let_x0_std == LetValue("L138", "x0_std", population_std_dev(locals.x0), "L139")
Let_x1_std == LetValue("L139", "x1_std", population_std_dev(locals.x1), "L141")
Print_std_obs ==
    Println("L141", "STD (obs): {:?} -> {:?}, diff: {}",
            <<locals.x0_std, locals.x1_std, FSub(locals.x0_std, locals.x1_std)>>, "done")

Next ==
    \/ CallNew
    \/ CallSimulate
    \/ CallMeanDifference
    \/ CallCleanMaeCalc
    \/ Let_b
    \/ Let_y
    \/ Let_a
    \/ Let_x
    \/ Let_mae
    \/ Print_mae
    \/ Let_wrong_mae
    \/ Print_wrong_mae
    \/ Let_clean_mae
    \/ Print_clean_mae
    \/ Print_ratio
    \/ Let_model_std
    \/ Print_model_std
    \/ EndBlock
    \/ Print_header
    \/ Let_a0
    \/ Let_a1
    \/ Let_a0_std
    \/ Let_a1_std
    \/ Print_std_real
    \/ Let_x0
    \/ Let_x1
    \/ Let_x0_std
    \/ Let_x1_std
    \/ Print_std_obs

Spec == Init /\ [][Next]_vars

(***************************************************************************)
(* The properties the specification states of the program.                 *)
(***************************************************************************)
Returned(fn) == pc = "returned" /\ locals.fn = fn
\* The relative tolerance the specification allows a numeric comparison: 1e-3.
Tolerance == Dec(1, 1000)
\* a is b within the tolerance, relative to scale
Near(a, b, scale) == FLe(FAbs(FSub(a, b)), FMul(Tolerance, FAbs(scale)))
Within(a, b) == Near(a, b, b)

\* phi lies below the first or above the last value of the curve built for sigma
OutOfRange(phi, sigma) ==
    Only({FLt(phi, t[1]) \/ FLt(t[GridSize], phi) : t \in {phi_table[sigma]}})

\* C1: a call of clean_mae_calc with phi below the first or above the last value
\* of the curve it builds reports an error: it never returns a number.
C1_OutOfDomainIsReported ==
    (locals.fn = "clean_mae_calc"
        /\ OutOfRange(locals.phi, Combined(locals.sigma_x, locals.sigma_y)))
    => pc # "returned"

\* C2: a call of mean_difference with sequences of different lengths, or with two
\* empty sequences, fails: it never returns a number.
C2_LengthMismatchIsReported ==
    (locals.fn = "mean_difference"
        /\ (Len(locals.model) # Len(locals.test) \/ Len(locals.model) = 0))
    => pc # "returned"

\* C3: with sigma_x = sigma_y = 0 the curve is the identity at its grid points and
\* clean_mae_calc(phi, 0, 0) returns phi (within the tolerance) for phi >= 0.
IdentityCurve ==
    \A i \in GridPoints : Within(phi_table[Zero][i], h_table[Zero][i])
C3_ZeroSigmaIsIdentity ==
    (Returned("clean_mae_calc") /\ locals.sigma_x = Zero /\ locals.sigma_y = Zero
        /\ FLe(Zero, locals.phi))
    => (IdentityCurve /\ Within(locals.ret, locals.phi))

\* C4: Measure::new with size = 0 or low > high, and Measure::simulate with
\* std < 0 (whatever the signal), are rejected: they never return a signal.
InvalidParameter ==
    \/ locals.fn = "new" /\ (locals.size = 0 \/ FLt(locals.high, locals.low))
    \/ locals.fn = "simulate" /\ FLt(locals.std, Zero)
C4_InvalidParameterIsRejected == InvalidParameter => pc # "returned"

\* C5: whenever mean_difference returns a value, it is the value of the call with
\* the arguments exchanged, and it is zero exactly if the two sequences are the
\* same, element by element.
C5_SymmetricAndZeroIffIdentical ==
    Returned("mean_difference")
    => /\ locals.ret = mean_difference(locals.test, locals.model)
       /\ (locals.ret = Zero <=> locals.model = locals.test)

\* The tables built for sigma have GridSize entries, h from 0 to 5 * sigma and
\* strictly increasing, phi non-decreasing.
TableOk(h, phi, sigma) ==
    /\ Len(h) = GridSize /\ Len(phi) = GridSize
    /\ h[1] = Zero
    /\ Within(h[GridSize], FMul(FInt(5), sigma))
    /\ \A i \in 1..(GridSize - 1) : FLt(h[i], h[i + 1]) /\ FLe(phi[i], phi[i + 1])
Ascending == [s \in Sigmas |-> TableOk(h_table[s], phi_table[s], s)]

\* C6: every call of clean_mae_calc with sigma_x, sigma_y >= 0 builds tables of
\* 10,000 entries with h_grid[0] = 0, h_grid[N-1] = 5 * sigma, h_grid strictly
\* increasing and phi_grid non-decreasing.
C6_TablesAscend ==
    (Returned("clean_mae_calc") /\ FLe(Zero, locals.sigma_x) /\ FLe(Zero, locals.sigma_y))
    => Ascending[Combined(locals.sigma_x, locals.sigma_y)]

\* The grid points (from 1) at which the curve for sigma takes the value phi.
OnCurve(phi, sigma) == {i \in GridPoints : phi_table[sigma][i] = phi}
RoundTrip(phi, ret, sigma) ==
    \A i \in OnCurve(phi, sigma) :
        Near(ret, h_table[sigma][i], h_table[sigma][GridSize])

\* C7: clean_mae_calc put a value phi_grid[i] of its own curve returns h_grid[i],
\* here within the tolerance taken relative to the end of the grid, which the
\* tolerance relative to h_grid[i] implies.
C7_RoundTrip ==
    (Returned("clean_mae_calc") /\ FLe(Zero, locals.sigma_x) /\ FLe(Zero, locals.sigma_y))
    => RoundTrip(locals.phi, locals.ret, Combined(locals.sigma_x, locals.sigma_y))

MainOutput ==
    <<"MAE (real): {}", "WrongMAE (usual way): {}", "CleanMAE (our method) = {}",
      "|WrongMAE - MAE| / |CleanMAE - MAE| = {}", "Model STD: {}",
      "\nDelta Sigma (obs) VS. Delta Sigma (real)",
      "STD (real): {:?} -> {:?}, diff: {}", "STD (obs): {:?} -> {:?}, diff: {}">>
\* The number of lines printed when main is about to run the statement of a label.
Progress ==
    [L78 |-> 0, L81 |-> 0, L85 |-> 0, L88 |-> 0, L91 |-> 0, L92 |-> 0, L95 |-> 1,
     L96 |-> 1, L105 |-> 2, L106 |-> 2, L114 |-> 3, L120 |-> 4, L121 |-> 4,
     L122 |-> 5, L124 |-> 5, L127 |-> 6, L128 |-> 6, L130 |-> 6, L131 |-> 6,
     L133 |-> 6, L135 |-> 7, L136 |-> 7, L138 |-> 7, L139 |-> 7, L141 |-> 7,
     done |-> 8]
\* line i of the output, if printed while name is bound, shows the value of name
Shows(i, name) == (Len(out) >= i /\ Bound(name)) => out[i].args = <<locals[name]>>

\* C9: every run of main prints the true, the observed and the corrected mean
\* absolute difference, the ratio of the errors and the model's standard
\* deviation, then the second demonstration, in this order, none skipped or
\* repeated; no statement fails and the run goes on from every statement to the
\* last.
C9_PrintOrder ==
    locals.fn = "main"
    => /\ pc \in DOMAIN Progress
       /\ Len(out) = Progress[pc]
       /\ \A i \in 1..Len(out) : out[i].text = MainOutput[i]
       /\ Shows(1, "mae") /\ Shows(2, "wrong_mae") /\ Shows(3, "clean_mae")
       /\ Shows(5, "model_std")
       /\ (pc # "done" => ENABLED Next)
\* main has run to its end and printed all its lines.
C9_RunComplete == locals.fn = "main" /\ pc = "done" /\ Len(out) = Len(MainOutput)

\* the values a draw around mean with deviation std can take
Around(mean, std) == {NormalSample(mean, std, k) : k \in 0..(RngMod - 1)}
\* a call of simulate that returns leaves its input as it was and returns as many
\* samples, each drawn around the sample of the input at its place
SimulateFrame ==
    (Calling("simulate") /\ pc' = "returned")
    => /\ locals'.measure = locals.measure
       /\ Len(locals'.ret) = Len(locals.measure)
       /\ \A i \in 1..Len(locals.measure) :
              locals'.ret[i] \in Around(locals.measure[i], locals.std)
\* the signals of main
SignalsOfMain == {"b", "y", "a", "x", "a0", "a1", "x0", "x1"}
\* a statement of main leaves every signal bound before and after it as it was,
\* every signal has sampling_size samples, and the two mean_difference calls get
\* sequences of one length, not empty
MainFrame ==
    locals.fn = "main"
    => /\ \A k \in SignalsOfMain \cap DOMAIN locals' :
              /\ Len(locals'[k]) = locals.sampling_size
              /\ k \in DOMAIN locals => locals'[k] = locals[k]
       /\ pc' = "L91" => Len(locals'.a) = Len(locals'.b) /\ Len(locals'.a) > 0
       /\ pc' = "L95" => Len(locals'.x) = Len(locals'.y) /\ Len(locals'.x) > 0

\* C10: simulate has no effect on its input and returns a signal of the input's
\* length, sample i drawn around sample i of the input; so every signal of main
\* has the length of its base and each mean_difference call of main receives two
\* non-empty sequences of equal length.
C10_SimulateKeepsItsInput == [][SimulateFrame /\ MainFrame]_vars
\* simulate has returned a signal that differs from its input of MaxLen samples.
C10_SimulateReturned ==
    Returned("simulate") /\ Len(locals.measure) = MaxLen /\ locals.ret # locals.measure

====
